---- MODULE Spec2Model ----
(***************************************************************************)
(* Hierholzer's algorithm (src/hierholzer.py) as a state machine.          *)
(*                                                                         *)
(* The Python objects are kept as objects: `heap` holds the adjacency      *)
(* dictionary of the Graph (object "g") and the one made by copy.deepcopy  *)
(* (object "w"); the local name adj_list is a reference to one of them.    *)
(* Adjacency entries are Python lists: pop() takes the last entry and      *)
(* remove(x) deletes the first entry equal to x.  The order of the lists   *)
(* of the input graph is part of the input: Init ranges over every order   *)
(* of every list of every graph that meets the precondition, InitAny over  *)
(* every graph, valid or not, with its lists in label order or reversed.   *)
(***************************************************************************)
EXTENDS Integers, Sequences, FiniteSets, TLC

VARIABLES
    heap,          \* object store: "g" = g.adj_list, "w" = the deep copy
    vertices,      \* g.vertices
    adj_list,      \* hierholzer's local adj_list: a reference into heap
    tour,          \* hierholzer's local tour (the master tour)
    v_index,       \* enumerate counter of the for loop over tour (0-based)
    v_tour,        \* hierholzer's local v_tour
    start_vertex,  \* hierholzer_tour's parameter start_vertex
    next_vertex,   \* hierholzer_tour's local next_vertex
    walk,          \* hierholzer_tour's local list named tour
    caller,        \* call site of the running hierholzer_tour: "initial" | "scan"
    pc,            \* control position
    err,           \* exception that ended the run ("" when none)
    run,           \* 1 = first call of hierholzer(g), 2 = second call on the same g
    g0,            \* history: the Graph as it was before the first call
    adj_at_call,   \* history: the store at the last call of hierholzer_tour
    trace1,        \* history: the program states the first run went through
    k,             \* history: number of steps taken by the second run
    steps          \* history: number of edges traversed by the current run

vars == <<heap, vertices, adj_list, tour, v_index, v_tour, start_vertex,
          next_vertex, walk, caller, pc, err, run, g0, adj_at_call, trace1, k, steps>>

(***************************************************************************)
(* Bounds of the model.                                                    *)
(***************************************************************************)
MaxVertices == 5
MaxEdges == 6
MaxEdgesAny == 6
MaxVerticesEven == 6
MaxEdgesEven == 7

(***************************************************************************)
(* Graphs: vertex labels are strings, as "".join(tour) requires.           *)
(***************************************************************************)
Labels == <<"a", "b", "c", "d", "e", "f", "g", "h">>

VertexSet(n) == {Labels[i] : i \in 1..n}

Pairs(n) == {{Labels[i], Labels[j]} : i \in 1..n, j \in 1..n} \ {{Labels[i]} : i \in 1..n}

Neighbours(E, v) == {u \in UNION E : u # v /\ {u, v} \in E}

\* every order of the elements of S as a list
Perms(S) ==
    {p \in [1..Cardinality(S) -> S] : \A i, j \in 1..Cardinality(S) : i # j => p[i] # p[j]}

\* every adjacency dictionary of the graph (first n labels, edges E)
RECURSIVE AdjLists(_, _)
AdjLists(n, E) ==
    IF n = 0 THEN {<<>>}
    ELSE {f @@ (Labels[n] :> p) : f \in AdjLists(n - 1, E), p \in Perms(Neighbours(E, Labels[n]))}

\* vertices other than the first are interchangeable: they are labelled by
\* degree and, among equal degrees, the neighbours of the first vertex come first
LabelKey(E, v) ==
    2 * Cardinality(Neighbours(E, v)) + (IF {Labels[1], v} \in E THEN 1 ELSE 0)

DegreeOrdered(n, E) ==
    \A i \in 2..(n - 1) : LabelKey(E, Labels[i]) >= LabelKey(E, Labels[i + 1])

(***************************************************************************)
(* Python list operations, 0-based positions as in the source.             *)
(***************************************************************************)
Occ(l, x) == Cardinality({i \in 1..Len(l) : l[i] = x})

\* an unordered collection would hand out its entries in an order that
\* differs from one run to the next
pop_index_by_run(l) == IF run = 1 THEN Len(l) ELSE 1

\* list.pop() without argument: the position of the entry taken, the last one
pop_index(l) == Len(l)

\* list.pop(): the value returned
list_pop_value(l) == l[pop_index(l)]

\* list.pop(): the list afterwards
list_pop_rest(l) == SubSeq(l, 1, pop_index(l) - 1) \o SubSeq(l, pop_index(l) + 1, Len(l))

\* the list is cut off at its first entry equal to x
list_remove_from(l, x) ==
    LET i == CHOOSE i \in 1..Len(l) : l[i] = x /\ \A j \in 1..(i - 1) : l[j] # x
    IN  SubSeq(l, 1, i - 1)

\* list.remove(x): the list without its first entry equal to x
list_remove(l, x) ==
    LET i == CHOOSE i \in 1..Len(l) : l[i] = x /\ \A j \in 1..(i - 1) : l[j] # x
    IN  SubSeq(l, 1, i - 1) \o SubSeq(l, i + 1, Len(l))

\* inserting at the end whatever the position
list_insert_at_end(l, i, x) == Append(l, x)

\* list.insert(i, x) for i >= 0: positions past the end append
list_insert(l, i, x) ==
    LET p == IF i > Len(l) THEN Len(l) ELSE i
    IN  SubSeq(l, 1, p) \o <<x>> \o SubSeq(l, p + 1, Len(l))

\* the list in its own order
reversed_not(l) == l

\* reversed(l)
reversed(l) == [i \in 1..Len(l) |-> l[Len(l) + 1 - i]]

\* l[i] with Python's 0-based index
At(l, i) == l[i + 1]


(***************************************************************************)
(* Properties of the input graph.                                          *)
(***************************************************************************)
Vs == {vertices[i] : i \in 1..Len(vertices)}

\* the adjacency dictionary the name adj_list refers to
Adj == heap[adj_list]

Symmetric(adj) == \A u, v \in DOMAIN adj : Occ(adj[u], v) = Occ(adj[v], u)

EvenDegrees(adj) == \A v \in DOMAIN adj : Len(adj[v]) % 2 = 0

\* vertices reachable from the set S along the entries of adj
RECURSIVE Reach(_, _)
Reach(adj, S) ==
    LET T == S \cup {w \in DOMAIN adj : \E u \in S : Occ(adj[u], w) > 0}
    IN  IF T = S THEN S ELSE Reach(adj, T)

Connected(adj) == \A v \in DOMAIN adj : Reach(adj, {v}) = DOMAIN adj

\* |E|: every undirected edge has two entries
NumEdges(adj) ==
    LET RECURSIVE Sum(_)
        Sum(S) == IF S = {} THEN 0
                  ELSE LET v == CHOOSE x \in S : TRUE IN Len(adj[v]) + Sum(S \ {v})
    IN  Sum(DOMAIN adj) \div 2

\* the precondition of the module header: undirected, connected, all degrees even
Valid(adj) == Symmetric(adj) /\ Connected(adj) /\ EvenDegrees(adj)

\* the input graph meets the precondition (evaluated once, before the first call)
ValidInput == g0.valid

Empty(adj) == \A v \in DOMAIN adj : adj[v] = <<>>

\* number of positions i of seq whose pair (seq[i], seq[i+1]) is the undirected edge u-v
PairCount(seq, u, v) ==
    Cardinality({i \in 1..(Len(seq) - 1) : {seq[i], seq[i + 1]} = {u, v}})

(***************************************************************************)
(* Initial states: hierholzer(g) is about to be called.                    *)
(***************************************************************************)
NoObject == <<>>

\* the observable program state, recorded by the first run
Snap == [pc |-> pc, err |-> err, heap |-> heap, adj_list |-> adj_list, tour |-> tour,
         v_index |-> v_index, v_tour |-> v_tour, start_vertex |-> start_vertex,
         next_vertex |-> next_vertex, walk |-> walk]

InitWith(n, adj) ==
    /\ DOMAIN adj = VertexSet(n)
    /\ heap = [g |-> adj, w |-> NoObject]
    /\ vertices = SubSeq(Labels, 1, n)
    /\ adj_list = "unbound"
    /\ tour = <<>>
    /\ v_index = -1
    /\ v_tour = <<>>
    /\ start_vertex = ""
    /\ next_vertex = ""
    /\ walk = <<>>
    /\ caller = ""
    /\ pc = "call"
    /\ err = ""
    /\ run = 1
    /\ g0 = [adj_list |-> adj, vertices |-> SubSeq(Labels, 1, n),
             valid |-> Valid(adj), edges |-> NumEdges(adj),
             connected |-> Connected(adj), even |-> EvenDegrees(adj)]
    /\ adj_at_call = NoObject
    /\ trace1 = <<>>
    /\ k = 0
    /\ steps = 0

\* inputs that meet the precondition: connected, every degree even
Init ==
    \E n \in 1..MaxVertices : \E E \in SUBSET Pairs(n) :
        /\ Cardinality(E) <= MaxEdges
        /\ DegreeOrdered(n, E)
        /\ \A v \in VertexSet(n) : Cardinality(Neighbours(E, v)) % 2 = 0
        /\ Connected(CHOOSE adj \in AdjLists(n, E) : TRUE)
        /\ \E adj \in AdjLists(n, E) : InitWith(n, adj)

\* the neighbours of v in label order, as in the graph strings of main,
\* or in the opposite order
Sorted(E, v, ascending) ==
    LET ns == SelectSeq(Labels, LAMBDA x : x \in Neighbours(E, v))
    IN  IF ascending THEN ns ELSE reversed(ns)

\* any undirected simple graph, valid or not
InitAny ==
    \E E \in SUBSET Pairs(MaxVertices) : \E ascending \in BOOLEAN :
        /\ Cardinality(E) <= MaxEdgesAny
        /\ InitWith(MaxVertices, [v \in VertexSet(MaxVertices) |-> Sorted(E, v, ascending)])

\* every graph on the first n labels, from label i on, that extends the edges E
\* to at most m edges and gives every vertex an even degree
RECURSIVE EvenGraphs(_, _, _, _)
EvenGraphs(i, n, m, E) ==
    IF i > n THEN {E}
    ELSE LET v == Labels[i]
             higher == {Labels[j] : j \in (i + 1)..n}
             choices == {S \in SUBSET higher :
                            /\ (Cardinality(Neighbours(E, v)) + Cardinality(S)) % 2 = 0
                            /\ Cardinality(E) + Cardinality(S) <= m}
         IN  UNION {EvenGraphs(i + 1, n, m, E \cup {{v, w} : w \in S}) : S \in choices}

\* any undirected simple graph with even degrees, connected or not
InitEven ==
    \E n \in 1..MaxVerticesEven :
        \E E \in EvenGraphs(1, n, MaxEdgesEven, {}) : \E ascending \in BOOLEAN :
            InitWith(n, [v \in VertexSet(n) |-> Sorted(E, v, ascending)])

\* the history of the two runs, updated by every step
Observe ==
    /\ trace1' = IF run' = 1 THEN Append(trace1, Snap') ELSE trace1
    /\ k' = IF run' = 2 /\ run = 2 THEN k + 1 ELSE 0
    /\ steps' = IF run' # run THEN 0
                ELSE IF Len(walk') > Len(walk) THEN steps + 1 ELSE steps
    /\ UNCHANGED <<g0, vertices>>


(***************************************************************************)
(* hierholzer_tour(adj_list, start_vertex)                                 *)
(***************************************************************************)
\* an exception leaves the function: nothing else is assigned
Raise(e) ==
    /\ pc' = "error"
    /\ err' = e
    /\ UNCHANGED <<adj_list, tour, v_index, v_tour, start_vertex, walk, caller, run, adj_at_call>>

\* reading the last entry without taking it out
pop_edge_peek(adj, u) == adj

\* the whole entry of u is cleared
pop_edge_all(adj, u) == [adj EXCEPT ![u] = <<>>]

\* adj_list[u].pop() as it leaves the store
pop_edge(adj, u) == [adj EXCEPT ![u] = list_pop_rest(adj[u])]

\* the first entry of the opposite list is taken out, whatever it is
remove_edge_first(adj, w, u) == [adj EXCEPT ![w] = Tail(adj[w])]

\* the opposite entry is left in place
remove_edge_forgotten(adj, w, u) == adj

\* adj_list[w].remove(u) as it leaves the store
remove_edge(adj, w, u) == [adj EXCEPT ![w] = list_remove(adj[w], u)]

\* an empty entry at the start vertex yields the one-vertex walk, no exception
Tour_FirstEdge_Silent ==
    /\ pc = "tour_first"
    /\ IF Len(Adj[start_vertex]) = 0
       THEN /\ next_vertex' = start_vertex
            /\ walk' = <<start_vertex>>
            /\ pc' = "tour_loop"
            /\ UNCHANGED <<heap, adj_list, tour, v_index, v_tour, start_vertex,
                           caller, err, run, adj_at_call>>
       ELSE LET nv == list_pop_value(Adj[start_vertex])
                a1 == pop_edge(Adj, start_vertex)
            IN  /\ next_vertex' = nv
                /\ heap' = [heap EXCEPT ![adj_list] = remove_edge(a1, nv, start_vertex)]
                /\ walk' = <<start_vertex, nv>>
                /\ pc' = "tour_loop"
                /\ UNCHANGED <<adj_list, tour, v_index, v_tour, start_vertex,
                               caller, err, run, adj_at_call>>
    /\ Observe

\* lines 28-30: the first edge of the walk
Tour_FirstEdge ==
    /\ pc = "tour_first"
    /\ IF Len(Adj[start_vertex]) = 0
       THEN \* pop from empty list
            /\ Raise("IndexError")
            /\ UNCHANGED <<heap, next_vertex>>
       ELSE LET nv == list_pop_value(Adj[start_vertex])
                a1 == pop_edge(Adj, start_vertex)
            IN  /\ next_vertex' = nv
                /\ IF Occ(a1[nv], start_vertex) = 0
                   THEN \* list.remove(x): x not in list
                        /\ heap' = [heap EXCEPT ![adj_list] = a1]
                        /\ Raise("ValueError")
                   ELSE /\ heap' = [heap EXCEPT ![adj_list] = remove_edge(a1, nv, start_vertex)]
                        /\ walk' = <<start_vertex, nv>>
                        /\ pc' = "tour_loop"
                        /\ UNCHANGED <<adj_list, tour, v_index, v_tour, start_vertex,
                                       caller, err, run, adj_at_call>>
    /\ Observe

\* a walk that cannot go on is returned as it is, without an exception
Tour_NextEdge_Break ==
    /\ pc = "tour_loop"
    /\ next_vertex # start_vertex
    /\ LET current_vertex == next_vertex
       IN  IF Len(Adj[current_vertex]) = 0
           THEN /\ next_vertex' = start_vertex
                /\ UNCHANGED <<heap, adj_list, tour, v_index, v_tour, start_vertex, walk,
                               caller, pc, err, run, adj_at_call>>
           ELSE LET nv == list_pop_value(Adj[current_vertex])
                    a1 == pop_edge(Adj, current_vertex)
                IN  /\ next_vertex' = nv
                    /\ heap' = [heap EXCEPT ![adj_list] = remove_edge(a1, nv, current_vertex)]
                    /\ walk' = Append(walk, nv)
                    /\ UNCHANGED <<adj_list, tour, v_index, v_tour, start_vertex,
                                   caller, pc, err, run, adj_at_call>>
    /\ Observe

\* the edge taken stays in the store at both ends
Tour_NextEdge_Keep ==
    /\ pc = "tour_loop"
    /\ next_vertex # start_vertex
    /\ LET current_vertex == next_vertex
       IN  IF Len(Adj[current_vertex]) = 0
           THEN /\ Raise("IndexError")
                /\ UNCHANGED <<heap, next_vertex>>
           ELSE /\ next_vertex' = list_pop_value(Adj[current_vertex])
                /\ walk' = Append(walk, next_vertex')
                /\ UNCHANGED <<heap, adj_list, tour, v_index, v_tour, start_vertex,
                               caller, pc, err, run, adj_at_call>>
    /\ Observe

\* lines 31-35: one iteration of the while loop
Tour_NextEdge ==
    /\ pc = "tour_loop"
    /\ next_vertex # start_vertex
    /\ LET current_vertex == next_vertex
       IN  IF Len(Adj[current_vertex]) = 0
           THEN /\ Raise("IndexError")
                /\ UNCHANGED <<heap, next_vertex>>
           ELSE LET nv == list_pop_value(Adj[current_vertex])
                    a1 == pop_edge(Adj, current_vertex)
                IN  /\ next_vertex' = nv
                    /\ IF Occ(a1[nv], current_vertex) = 0
                       THEN /\ heap' = [heap EXCEPT ![adj_list] = a1]
                            /\ Raise("ValueError")
                       ELSE /\ heap' = [heap EXCEPT ![adj_list] = remove_edge(a1, nv, current_vertex)]
                            /\ walk' = Append(walk, nv)
                            /\ UNCHANGED <<adj_list, tour, v_index, v_tour, start_vertex,
                                           caller, pc, err, run, adj_at_call>>
    /\ Observe

(***************************************************************************)
(* hierholzer(g)                                                           *)
(***************************************************************************)
\* no copy is made: the result is the object itself
deepcopy_alias(ref) == ref

\* copy.deepcopy(x): the object that holds the copy
deepcopy(ref) == "w"

\* lines 39-43: copy the adjacency, call hierholzer_tour(adj_list, vertices[0])
Hierholzer_Call ==
    /\ pc = "call"
    /\ LET ref == deepcopy("g")
       IN  /\ heap' = [heap EXCEPT ![ref] = heap["g"]]
           /\ adj_list' = ref
           /\ adj_at_call' = heap["g"]
    /\ start_vertex' = At(vertices, 0)
    /\ caller' = "initial"
    /\ walk' = <<>>
    /\ pc' = "tour_first"
    /\ UNCHANGED <<tour, v_index, v_tour, next_vertex, err, run>>
    /\ Observe

\* lines 31, 36, 43: the initial walk is back at its start and becomes the tour
Initial_Tour ==
    /\ pc = "tour_loop"
    /\ next_vertex = start_vertex
    /\ caller = "initial"
    /\ tour' = walk
    /\ v_index' = -1
    /\ pc' = "scan"
    /\ UNCHANGED <<heap, adj_list, v_tour, start_vertex, next_vertex, walk, caller,
                   err, run, adj_at_call>>
    /\ Observe

\* an iterator that steps over one position
iter_next_skip(i) == i + 2

\* the list iterator of the for loop: the position it yields after position i
iter_next(i) == i + 1

\* lines 48, 50: the vertex at the next position has no unused edge
Scan_Skip ==
    /\ pc = "scan"
    /\ iter_next(v_index) < Len(tour)
    /\ Len(Adj[At(tour, iter_next(v_index))]) = 0
    /\ v_index' = iter_next(v_index)
    /\ UNCHANGED <<heap, adj_list, tour, v_tour, start_vertex, next_vertex, walk, caller,
                   pc, err, run, adj_at_call>>
    /\ Observe

\* the additional walk starts at any vertex of the graph that has unused edges
Scan_Extract_Anywhere ==
    /\ pc = "scan"
    /\ iter_next(v_index) < Len(tour)
    /\ \E x \in Vs :
          /\ Len(Adj[x]) # 0
          /\ start_vertex' = x
    /\ v_index' = iter_next(v_index)
    /\ caller' = "scan"
    /\ walk' = <<>>
    /\ adj_at_call' = Adj
    /\ pc' = "tour_first"
    /\ UNCHANGED <<heap, adj_list, tour, v_tour, next_vertex, err, run>>
    /\ Observe

\* lines 48-52: the vertex at the next position has unused edges: call hierholzer_tour(adj_list, v)
Scan_Extract ==
    /\ pc = "scan"
    /\ iter_next(v_index) < Len(tour)
    /\ Len(Adj[At(tour, iter_next(v_index))]) # 0
    /\ v_index' = iter_next(v_index)
    /\ start_vertex' = At(tour, iter_next(v_index))
    /\ caller' = "scan"
    /\ walk' = <<>>
    /\ adj_at_call' = Adj
    /\ pc' = "tour_first"
    /\ UNCHANGED <<heap, adj_list, tour, v_tour, next_vertex, err, run>>
    /\ Observe

\* the additional walk becomes v_tour wherever it stands
Additional_Tour_Open ==
    /\ pc = "tour_loop"
    /\ caller = "scan"
    /\ v_tour' = walk
    /\ pc' = "splice"
    /\ UNCHANGED <<heap, adj_list, tour, v_index, start_vertex, next_vertex, walk, caller,
                   err, run, adj_at_call>>
    /\ Observe

\* lines 31, 36, 52: the additional walk is back at its start and becomes v_tour
Additional_Tour ==
    /\ pc = "tour_loop"
    /\ next_vertex = start_vertex
    /\ caller = "scan"
    /\ v_tour' = walk
    /\ pc' = "splice"
    /\ UNCHANGED <<heap, adj_list, tour, v_index, start_vertex, next_vertex, walk, caller,
                   err, run, adj_at_call>>
    /\ Observe

\* inserting at v_index itself
insert_pos_same(i) == i

\* line 61: the position handed to tour.insert
insert_pos(i) == i + 1

\* every entry of reversed(v_tour) is inserted
skipped_none(u_index, vt) == FALSE

\* the first entry of reversed(v_tour) is left out instead of the last
skipped_first(u_index, vt) == u_index = 0

\* line 59: the entry of reversed(v_tour) that is not inserted
skipped(u_index, vt) == u_index = Len(vt) - 1

\* lines 55-61: the loop over enumerate(reversed(v_tour)), from u_index on
RECURSIVE insert_loop(_, _, _, _)
insert_loop(t, vt, i, u_index) ==
    IF u_index >= Len(vt) THEN t
    ELSE IF skipped(u_index, vt) THEN insert_loop(t, vt, i, u_index + 1)
    ELSE insert_loop(list_insert(t, insert_pos(i), At(reversed(vt), u_index)), vt, i, u_index + 1)

\* the scan is moved behind the inserted entries
Splice_Jump ==
    /\ pc = "splice"
    /\ tour' = insert_loop(tour, v_tour, v_index, 0)
    /\ v_index' = v_index + Len(v_tour) - 1
    /\ pc' = "scan"
    /\ UNCHANGED <<heap, adj_list, v_tour, start_vertex, next_vertex, walk, caller,
                   err, run, adj_at_call>>
    /\ Observe

\* lines 55-61: v_tour is inserted into the tour after position v_index
Splice ==
    /\ pc = "splice"
    /\ tour' = insert_loop(tour, v_tour, v_index, 0)
    /\ pc' = "scan"
    /\ UNCHANGED <<heap, adj_list, v_index, v_tour, start_vertex, next_vertex, walk, caller,
                   err, run, adj_at_call>>
    /\ Observe

\* the scan also ends at the first position whose vertex has no unused edge
Hierholzer_Return_Early ==
    /\ pc = "scan"
    /\ \/ iter_next(v_index) >= Len(tour)
       \/ Len(Adj[At(tour, iter_next(v_index))]) = 0
    /\ pc' = "done"
    /\ UNCHANGED <<heap, adj_list, tour, v_index, v_tour, start_vertex, next_vertex, walk,
                   caller, err, run, adj_at_call>>
    /\ Observe

\* lines 48, 63: the for loop is exhausted, the tour is returned
Hierholzer_Return ==
    /\ pc = "scan"
    /\ iter_next(v_index) >= Len(tour)
    /\ pc' = "done"
    /\ UNCHANGED <<heap, adj_list, tour, v_index, v_tour, start_vertex, next_vertex, walk,
                   caller, err, run, adj_at_call>>
    /\ Observe

\* the caller runs hierholzer(g) a second time on the same Graph object
Rerun ==
    /\ pc \in {"done", "error"}
    /\ run = 1
    /\ run' = 2
    /\ heap' = [heap EXCEPT !["w"] = NoObject]
    /\ adj_list' = "unbound"
    /\ tour' = <<>>
    /\ v_index' = -1
    /\ v_tour' = <<>>
    /\ start_vertex' = ""
    /\ next_vertex' = ""
    /\ walk' = <<>>
    /\ caller' = ""
    /\ pc' = "call"
    /\ err' = ""
    /\ adj_at_call' = NoObject
    /\ Observe

Next ==
    \/ Hierholzer_Call
    \/ Tour_FirstEdge
    \/ Tour_NextEdge
    \/ Initial_Tour
    \/ Scan_Skip
    \/ Scan_Extract
    \/ Additional_Tour
    \/ Splice
    \/ Hierholzer_Return

\* the steps of a caller that runs hierholzer twice on the same Graph
NextTwice ==
    \/ Next
    \/ Rerun

\* one run on an input that meets the precondition
Spec == Init /\ [][Next]_vars

\* two runs on an input that meets the precondition
SpecTwice == Init /\ [][NextTwice]_vars

\* two runs on any undirected simple graph
SpecAny == InitAny /\ [][NextTwice]_vars

\* one run on any undirected simple graph with even degrees
SpecEven == InitEven /\ [][Next]_vars

\* one run on any undirected simple graph with even degrees, never suspended
LiveSpecEven == InitEven /\ [][Next]_vars /\ WF_vars(Next)

\* two runs on any undirected simple graph, never suspended
LiveSpecAny == InitAny /\ [][NextTwice]_vars /\ WF_vars(NextTwice)

\* a run is never suspended: the program takes its next step
LiveSpec == Init /\ [][Next]_vars /\ WF_vars(Next)

TypeOK ==
    /\ pc \in {"call", "tour_first", "tour_loop", "scan", "splice", "done", "error"}
    /\ run \in {1, 2}
    /\ adj_list \in {"unbound", "g", "w"}


(***************************************************************************)
(* Properties.                                                             *)
(***************************************************************************)
HasEdges == g0.edges >= 1

\* the tour's consecutive pairs, as undirected edges, are the edges of the input graph
UsesEachEdgeOnce(t) == \A u, v \in Vs : PairCount(t, u, v) = Occ(g0.adj_list[u], v)

\* PairCount with the pair (last element, first element) added
WrapPairCount(t, u, v) ==
    PairCount(t, u, v) + (IF Len(t) > 0 /\ {t[Len(t)], t[1]} = {u, v} THEN 1 ELSE 0)

\* C1: on a connected graph with even degrees and at least one edge, the returned
\* tour uses each edge of the input graph exactly once: the multiset of its
\* consecutive pairs, as undirected edges, is the edge multiset of the graph.
C1_EulerTour ==
    (pc = "done" /\ ValidInput /\ HasEdges) => UsesEachEdgeOnce(tour)

\* a tour of six edges was returned after at least one splice
C1_Witness ==
    pc = "done" /\ ValidInput /\ HasEdges /\ v_tour # <<>> /\ g0.edges = 6

\* C2: on a valid input the first and the last element of the returned tour are
\* equal, and both are the start vertex vertices[0].
C2_Closed ==
    (pc = "done" /\ ValidInput) =>
        /\ Len(tour) >= 1
        /\ tour[1] = tour[Len(tour)]
        /\ tour[1] = At(vertices, 0)

\* a tour was returned after a sub-tour was spliced in at the start vertex
C2_Witness ==
    pc = "done" /\ ValidInput /\ v_tour # <<>> /\ v_tour[1] = At(vertices, 0)

\* C3: on a valid input with |E| edges the returned tour has length |E| + 1.
C3_Length ==
    (pc = "done" /\ ValidInput) => Len(tour) = g0.edges + 1

\* a tour longer than the last sub-tour spliced into it was returned
C3_Witness ==
    pc = "done" /\ ValidInput /\ Len(v_tour) >= 4 /\ Len(tour) > Len(v_tour)

\* C4 as stated: the consecutive pairs of the returned tour, the pair (last, first)
\* included, are exactly the edges of the input graph.
C4_Original ==
    (pc = "done" /\ ValidInput) =>
        \A u, v \in Vs : WrapPairCount(tour, u, v) = Occ(g0.adj_list[u], v)

\* C4 amended: the returned tour repeats the start vertex at its end, so the
\* consecutive pairs with the pair (last, first) included are the edges of the
\* input graph plus one pair (s, s) of the start vertex s, which is no edge.
C4_EdgesPlusWrap ==
    (pc = "done" /\ ValidInput) =>
        \A u, v \in Vs :
            WrapPairCount(tour, u, v) =
                Occ(g0.adj_list[u], v) + (IF u = v /\ u = At(vertices, 0) THEN 1 ELSE 0)

\* a tour of at least four edges was returned; its last and first element are the start vertex
C4_Witness ==
    /\ pc = "done" /\ ValidInput /\ Len(tour) >= 5
    /\ WrapPairCount(tour, At(vertices, 0), At(vertices, 0)) = 1

\* C5: hierholzer never changes the Graph: at every step, and after it has returned
\* or failed, g.adj_list and g.vertices are what they were before the call, so a
\* second run starts from the same adjacency and, on a valid input, again returns
\* a closed tour that uses every edge exactly once.
C5_GraphUnchanged ==
    /\ heap["g"] = g0.adj_list
    /\ vertices = g0.vertices
    /\ (run = 2 /\ pc = "tour_first" /\ caller = "initial") => Adj = g0.adj_list
    /\ (run = 2 /\ pc = "done" /\ ValidInput) =>
          /\ tour[1] = tour[Len(tour)]
          /\ UsesEachEdgeOnce(tour)

\* the second run on the same Graph has returned a tour after consuming every edge of its copy
C5_Witness ==
    run = 2 /\ pc = "done" /\ ValidInput /\ HasEdges /\ Empty(Adj) /\ ~Empty(heap["g"])

\* C6: on a valid input with at least one edge a run of hierholzer terminates:
\* the scan reaches the end of the tour and the tour is returned.
C6_Terminates ==
    (pc = "call" /\ ValidInput /\ HasEdges) ~> (pc = "done")

\* the scan has reached the end of a tour that grew by a splice
C6_Witness ==
    /\ pc = "done" /\ ValidInput /\ HasEdges
    /\ iter_next(v_index) = Len(tour) /\ v_tour # <<>>

\* C7: started on a symmetric store with even degrees at a vertex s that has an
\* unused edge, the walk of hierholzer_tour consumes exactly the edges it lists
\* (each was unused when it was traversed), and when it is returned it begins
\* and ends at s and has s at no other position.
C7_SubTour ==
    (/\ pc = "tour_loop"
     /\ Symmetric(adj_at_call) /\ EvenDegrees(adj_at_call)
     /\ Len(adj_at_call[start_vertex]) >= 1) =>
        /\ \A u, v \in Vs : PairCount(walk, u, v) + Occ(Adj[u], v) = Occ(adj_at_call[u], v)
        /\ walk[1] = start_vertex
        /\ walk[Len(walk)] = next_vertex
        /\ \A i \in 2..(Len(walk) - 1) : walk[i] # start_vertex
        /\ next_vertex = start_vertex => Len(walk) >= 3

\* a walk started by the scan is back at its start after at least three edges
C7_Witness ==
    /\ pc = "tour_loop" /\ caller = "scan" /\ next_vertex = start_vertex
    /\ Len(walk) >= 4
    /\ Symmetric(adj_at_call) /\ EvenDegrees(adj_at_call)

C9_EmptyStartRaises ==
    [][(pc = "tour_first" /\ Len(Adj[start_vertex]) = 0) =>
          /\ pc' = "error"
          /\ err' = "IndexError"
          /\ heap' = heap
          /\ walk' = <<>>
          /\ tour' = tour]_vars

\* the first vertex of the graph has no edge: the initial call has failed
C9_Witness ==
    /\ pc = "error" /\ err = "IndexError" /\ caller = "initial" /\ walk = <<>>
    /\ heap["w"] = g0.adj_list /\ g0.adj_list[At(vertices, 0)] = <<>>

\* C10 as stated: on a valid input on which hierholzer returns (one with at least
\* one edge) the store is fully empty in the state in which hierholzer returns
\* and in no state of the run before it.
C10_Original ==
    (ValidInput /\ HasEdges /\ pc \notin {"call", "error"}) => (Empty(Adj) <=> pc = "done")

\* C10 amended: on a valid input with at least one edge the store is fully empty
\* when hierholzer returns, and it is fully empty already before: it is not empty
\* while a walk is about to start or is away from its start vertex, it becomes
\* empty when the last walk is back at its start, and the rest of the run (the
\* last splice, the scan of the remaining positions) works on the empty store.
C10_EmptyFromLastWalk ==
    (ValidInput /\ HasEdges /\ pc \notin {"call", "error"}) =>
        /\ pc = "done" => Empty(Adj)
        /\ (pc = "tour_first" \/ (pc = "tour_loop" /\ next_vertex # start_vertex)) => ~Empty(Adj)

\* the store is already empty while the scan still has positions to inspect
C10_Witness ==
    /\ ValidInput /\ HasEdges /\ pc = "scan"
    /\ Empty(Adj) /\ iter_next(v_index) < Len(tour)


\* the vertex a traversal step leaves: start_vertex at line 28, current_vertex at line 33
StepFrom == IF pc = "tour_first" THEN start_vertex ELSE next_vertex

\* this step is a traversal step: the walk has grown by one edge
Traversal == pc \in {"tour_first", "tour_loop"} /\ Len(walk') > Len(walk)

\* C11: from a symmetric store on, the store is symmetric after every step (v occurs
\* in u's entry as often as u in v's), and a traversal step from current to w takes
\* exactly one w out of current's entry and exactly one current out of w's entry
\* and leaves every other entry as it was.
C11_SymmetricRemoval ==
    [][/\ pc' # "call" => Symmetric(Adj')
       /\ Traversal =>
            LET c == StepFrom
                w == next_vertex'
            IN  /\ Len(Adj'[c]) = Len(Adj[c]) - 1
                /\ Len(Adj'[w]) = Len(Adj[w]) - 1
                /\ \A x \in Vs : Occ(Adj'[c], x) = Occ(Adj[c], x) - (IF x = w THEN 1 ELSE 0)
                /\ \A x \in Vs : Occ(Adj'[w], x) = Occ(Adj[w], x) - (IF x = c THEN 1 ELSE 0)
                /\ \A x \in Vs \ {c, w} : Adj'[x] = Adj[x]
                /\ heap'["g"] = heap["g"]]_vars

\* a walk started by the scan has traversed two edges and the store is symmetric
C11_Witness ==
    /\ pc = "tour_loop" /\ caller = "scan" /\ Len(walk) = 3
    /\ Symmetric(Adj) /\ ~Empty(Adj)


\* C12: the splice of the sub-tour [v, x1, ..., xk, v] found at position i turns the
\* master tour into old[0..i-1] ++ [v, x1, ..., xk, v] ++ old[i+1..]: the sub-tour
\* stands in its own order in place of the one v at position i, the tour grows by
\* len(sub-tour) - 1, the old entries keep their order, first and last stay equal.
C12_Splice ==
    [][pc = "splice" =>
          /\ tour' = SubSeq(tour, 1, v_index) \o v_tour \o SubSeq(tour, v_index + 2, Len(tour))
          /\ Len(tour') = Len(tour) + Len(v_tour) - 1
          /\ \A j \in 0..(Len(tour) - 1) :
                At(tour', IF j <= v_index THEN j ELSE j + Len(v_tour) - 1) = At(tour, j)
          /\ At(tour', 0) = At(tour', Len(tour') - 1)
          /\ v_tour' = v_tour]_vars

\* a sub-tour of at least three edges stands, in its own order, inside the master
\* tour, after the first position and before the last
C12_Witness ==
    /\ pc = "scan" /\ Len(v_tour) >= 4 /\ v_index >= 1
    /\ v_index + Len(v_tour) < Len(tour)
    /\ SubSeq(tour, v_index + 1, v_index + Len(v_tour)) = v_tour


\* C13: the scan inspects the positions of the growing tour one by one in increasing
\* order, each once: a scan step moves from position i to i + 1, nothing else moves
\* the scan, a splice changes no position up to the current one and puts its first
\* inserted vertex at the position inspected next, and the scan ends only when the
\* last position of the tour has been inspected.
C13_ScanEveryPosition ==
    [][/\ (pc = "scan" /\ pc' # "done") =>
              (v_index' = v_index + 1 /\ v_index' <= Len(tour) - 1 /\ tour' = tour)
       /\ (pc = "scan" /\ pc' = "done") =>
              (v_index = Len(tour) - 1 /\ v_index' = v_index /\ tour' = tour)
       /\ pc \in {"tour_first", "tour_loop", "splice"} => v_index' = v_index
       /\ pc = "splice" =>
              /\ pc' = "scan"
              /\ At(tour', v_index + 1) = At(v_tour, 1)
              /\ \A j \in 0..v_index : At(tour', j) = At(tour, j)
       /\ (pc \in {"tour_first", "tour_loop"} /\ caller = "scan") => tour' = tour]_vars

\* the scan is at a position that the last splice created, inside the inserted segment
C13_Witness ==
    /\ pc = "scan" /\ Len(v_tour) >= 4
    /\ \E p \in 0..(v_index - 1) :
          /\ SubSeq(tour, p + 1, p + Len(v_tour)) = v_tour
          /\ v_index < p + Len(v_tour) - 1


\* C14: on a connected even-degree graph, in the initial extraction and in every
\* extraction of the scan, whenever the walk stands at a vertex other than the
\* extraction's start, that vertex has at least one unused edge: the walk never
\* dead-ends.  The only exception the code can raise on such an input is the pop at
\* the start vertex of the initial extraction, on the graph without edges.
C14_NoDeadEnd ==
    ValidInput =>
        /\ (pc = "tour_loop" /\ next_vertex # start_vertex) => Len(Adj[next_vertex]) >= 1
        /\ pc = "error" => (g0.edges = 0 /\ walk = <<>> /\ caller = "initial")

\* an extraction of the scan stands at a vertex other than its start, after two steps
C14_Witness ==
    /\ ValidInput
    /\ pc = "tour_loop" /\ caller = "scan"
    /\ next_vertex # start_vertex /\ Len(walk) >= 3


\* C15: whenever hierholzer returns a tour, on any symmetric input, valid or not,
\* every vertex of the returned tour has no unused edge left in the working store,
\* and the scan ends only in such a state.
C15_TourVerticesExhausted ==
    /\ pc = "done" => \A i \in 1..Len(tour) : Len(Adj[tour[i]]) = 0
    /\ (pc = "scan" /\ v_index = Len(tour) - 1) =>
           \A i \in 1..Len(tour) : Len(Adj[tour[i]]) = 0

\* a tour is returned on an input outside the precondition, with edges left in the
\* store at vertices that are not on the tour
C15_Witness ==
    /\ pc = "done" /\ ~ValidInput
    /\ Len(tour) >= 4 /\ ~Empty(Adj)


\* the vertices that occur in a list
Elems(l) == {l[i] : i \in 1..Len(l)}

\* C16 as stated: on a valid input, a sub-tour extracted during the scan has exactly
\* one vertex in common with the master tour of that moment, the vertex at the
\* splice position.
C16_Original ==
    (ValidInput /\ pc = "splice") =>
        Elems(v_tour) \cap Elems(tour) = {At(tour, v_index)}

\* C16: every sub-tour extracted during the scan is a closed walk that starts and
\* ends at the vertex v at the splice position and passes through v nowhere else; it
\* has no edge in common with the master tour of that moment, but it may have further
\* vertices in common with it; it is merged into the master tour at position v_index.
C16_SubTourAtSplicePosition ==
    [][pc = "splice" =>
          LET v == At(tour, v_index)
          IN  /\ Len(v_tour) >= 3
              /\ v_tour[1] = v /\ v_tour[Len(v_tour)] = v
              /\ \A i \in 2..(Len(v_tour) - 1) : v_tour[i] # v
              /\ v \in Elems(v_tour) \cap Elems(tour)
              /\ \A i \in 1..(Len(v_tour) - 1) :
                    PairCount(tour, v_tour[i], v_tour[i + 1]) = 0
              /\ SubSeq(tour', v_index + 1, v_index + Len(v_tour)) = v_tour]_vars

\* a sub-tour on a valid input that meets the master tour at a second vertex
C16_Witness ==
    /\ ValidInput /\ pc = "splice"
    /\ \E x \in Elems(v_tour) \cap Elems(tour) : x # At(tour, v_index)


\* the walk that is not yet part of the master tour: the sub-tour being extracted or
\* waiting to be merged, or the initial walk
WalkInProgress == IF pc \in {"scan", "done"} THEN <<>> ELSE walk

\* C17: edge conservation.  In every state of a run after the copy, for every pair
\* of vertices u, v, the number of consecutive pairs u-v of the master tour, plus
\* those of the walk in progress, plus the entries v left at u in the store, is the
\* number of entries v at u in the input: used and unused edges are disjoint and
\* together make up the input's edges.
C17_EdgeConservation ==
    pc # "call" =>
        \A u, v \in Vs :
            PairCount(tour, u, v) + PairCount(WalkInProgress, u, v) + Occ(Adj[u], v)
                = Occ(g0.adj_list[u], v)

\* all three parts are non-empty: a master tour, a sub-tour under way, unused edges
C17_Witness ==
    /\ pc = "tour_loop" /\ caller = "scan"
    /\ Len(tour) >= 4 /\ Len(walk) >= 3 /\ ~Empty(Adj)


\* C18: on every symmetric input, connected or not, with even degrees or not, a run
\* that is started ends by returning a tour or by raising an error, and the number
\* of traversal steps of the run, over all its extractions, never exceeds |E|.
C18_TerminatesWithinEdges ==
    /\ [](steps <= g0.edges)
    /\ (pc = "call") ~> (pc \in {"done", "error"})

\* a run on a graph with an odd-degree vertex has ended by an error after three or
\* more traversal steps
C18_Witness ==
    /\ pc = "error" /\ ~g0.even
    /\ steps >= 3 /\ steps <= g0.edges


\* the input is connected and has a vertex of odd degree
ConnectedOdd == g0.connected /\ ~g0.even

\* C19: on a connected graph with a vertex of odd degree, hierholzer never returns a
\* tour: every run ends with the IndexError of the pop at line 33, raised in an
\* extraction whose walk stands at a vertex other than the extraction's start that
\* has no unused edge.
C19_OddDegreeRaises ==
    /\ [](ConnectedOdd =>
            /\ pc # "done"
            /\ pc = "error" =>
                  /\ err = "IndexError"
                  /\ Len(walk) >= 2 /\ walk[1] = start_vertex
                  /\ walk[Len(walk)] = next_vertex
                  /\ next_vertex # start_vertex
                  /\ Len(Adj[next_vertex]) = 0)
    /\ (ConnectedOdd /\ pc = "call") ~> (pc = "error")

\* the error is raised in an extraction of the scan, after the initial walk closed
C19_Witness ==
    /\ ConnectedOdd /\ pc = "error"
    /\ caller = "scan" /\ Len(tour) >= 4 /\ Len(walk) >= 2


\* the input is disconnected, has even degrees, and its first vertex has an edge
DisconnectedEven == g0.even /\ ~g0.connected /\ g0.adj_list[At(g0.vertices, 0)] # <<>>

\* the vertices of the connected component of vertices[0] in the input
FirstComponent == Reach(g0.adj_list, {At(g0.vertices, 0)})

\* the returned tour is closed at vertices[0], uses each edge of the component of
\* vertices[0] once and no other edge, and the other components' edges are unused
ComponentTour ==
    /\ tour[1] = At(g0.vertices, 0) /\ tour[Len(tour)] = At(g0.vertices, 0)
    /\ \A u, v \in Vs :
          PairCount(tour, u, v) = IF u \in FirstComponent THEN Occ(g0.adj_list[u], v) ELSE 0
    /\ \A u \in FirstComponent : Adj[u] = <<>>
    /\ \A u \in Vs \ FirstComponent : Adj[u] = g0.adj_list[u]

\* C20 as stated: on such an input no error is raised and the returned tour covers
\* the component of vertices[0] and nothing else, so that its length is below |E| + 1.
C20_Original ==
    DisconnectedEven =>
        /\ pc # "error"
        /\ pc = "done" => (ComponentTour /\ Len(tour) < g0.edges + 1)

\* C20: on a disconnected even-degree input whose first vertex has an edge, the run
\* raises no error and returns; the returned tour is closed, uses each edge of the
\* component of vertices[0] exactly once and no other edge, and the edges of the
\* other components are all still unused; its length is the number of edges of that
\* component plus one, which is below |E| + 1 exactly when another component has an
\* edge.
C20_ComponentTour ==
    /\ [](DisconnectedEven =>
            /\ pc # "error"
            /\ pc = "done" =>
                  /\ ComponentTour
                  /\ Len(tour) = (g0.edges - NumEdges(Adj)) + 1
                  /\ (Len(tour) < g0.edges + 1) <=> ~Empty(Adj))
    /\ (DisconnectedEven /\ pc = "call") ~> (pc = "done")

\* two separate triangles: the tour of the first is returned, the second is unused
C20_Witness ==
    /\ DisconnectedEven /\ pc = "done"
    /\ g0.edges = 6 /\ Len(tour) = 4 /\ NumEdges(Adj) = 3
    /\ Cardinality(FirstComponent) = 3

====
